---- MODULE Spec2Model ----
(***************************************************************************)
(* Model of the WeatherFlow SignalK plugin's wind-derivation engine        *)
(* (src/windCalculations.js) and of the event handlers of src/index.js     *)
(* that drive it.                                                          *)
(*                                                                         *)
(* Number representation (IEEE doubles are modelled as exact fixed point): *)
(*   radians      integer multiples of pi/Pi      (Pi = 12, i.e. 15 deg)   *)
(*   degrees      integer degrees                                          *)
(*   speeds       mm/s                                                     *)
(*   km/h         1e-4 km/h                                                *)
(*   temperature  1/300 K   (so that 273.15 K and 80 F are exact)          *)
(*   Fahrenheit   1/1500 F                                                 *)
(*   humidity     1/100 percent                                            *)
(*   sin / cos    1e-4                                                     *)
(* null is the empty sequence, a present optional value v is <<v>>.        *)
(***************************************************************************)
EXTENDS Integers, Sequences, FiniteSets, TLC

\* Math.PI in angle units (one unit is pi/12 rad)
Pi == 12

\* temperature units per kelvin
TempScale == 3 * 100

\* humidity units per percent
HumScale == 10 * 10

\* the literal 273.15 in temperature units
Kelvin0 == 27315 * 3

Null == <<>>

Some(v) == <<v>>

Abs(x) == IF x < 0 THEN -x ELSE x

Sign(x) == IF x < 0 THEN -1 ELSE IF x > 0 THEN 1 ELSE 0

\* division rounding toward zero, as a float product rounded to the grid
DivT(a, b) == Sign(a) * (Abs(a) \div b)

\* JavaScript's % : the remainder takes the sign of the dividend
JsRem(a, n) == Sign(a) * (Abs(a) % n)

\* sin(k * 15 deg) * 1e4 for k = 0..6
SinTable == <<0, 2588, 5000, 7071, 8660, 9659, 10000>>

\* scale of the sine table
TrigScale == SinTable[7]

\* Math.sin on the angle grid
Sin(r) ==
  LET m == r % (2 * Pi)
      h == IF m > Pi THEN m - Pi ELSE m
      q == IF h > Pi \div 2 THEN Pi - h ELSE h
      v == IF q = 0 THEN 0 ELSE SinTable[q + 1]
  IN  IF m > Pi THEN -v ELSE v

\* Math.cos on the angle grid
Cos(r) == Sin(r + Pi \div 2)

RECURSIVE SqrtSearch(_, _, _)
SqrtSearch(n, lo, hi) ==
  IF lo >= hi THEN lo
  ELSE LET mid == (lo + hi + 1) \div 2
       IN  IF mid * mid <= n THEN SqrtSearch(n, mid, hi)
           ELSE SqrtSearch(n, lo, mid - 1)

\* Math.sqrt, rounded down to the grid
Sqrt(n) == SqrtSearch(n, 0, 46340)

\* the k in lo..hi with the largest F[k], the largest such k on a tie
RECURSIVE ArgMax(_, _, _, _)
ArgMax(F, k, hi, best) ==
  IF k > hi THEN best
  ELSE ArgMax(F, k + 1, hi, IF F[k] >= F[best] THEN k ELSE best)

\* Math.atan2 on the angle grid: the grid angle in (-pi, pi] nearest to the
\* direction of (x, y).  For a zero vector the result depends on the signs
\* of the zeros (and on rounding residue), so it is the caller-supplied z.
Atan2(y, x, z) ==
  IF x = 0 /\ y = 0 THEN z
  ELSE LET Dot == [k \in (1 - Pi)..Pi |-> x * Cos(k) + y * Sin(k)]
       IN  ArgMax(Dot, 1 - Pi, Pi, 1 - Pi)

\* Helper function to convert degrees to radians
degToRad(deg) == DivT(deg * Pi, 180)

\* Helper function to convert radians to degrees
radToDeg(rad) == DivT(rad * 180, Pi)

RECURSIVE normalizeDown(_)
normalizeDown(angle) ==
  IF angle > Pi THEN normalizeDown(angle - 2 * Pi) ELSE angle

RECURSIVE normalizeUp(_)
normalizeUp(angle) ==
  IF angle < -Pi THEN normalizeUp(angle + 2 * Pi) ELSE angle

\* normalizeAngle: the two while loops, in order
normalizeAngle(angle) == normalizeUp(normalizeDown(angle))

\* toCompassBearing with the comparison radians <= 0
toCompassBearingInclusive(radians) ==
  IF radians <= 0 THEN radians + 2 * Pi ELSE radians

\* toCompassBearing
toCompassBearing(radians) ==
  IF radians < 0 THEN radians + 2 * Pi ELSE radians

(***************************************************************************)
(* The vessel state tracker (class WindCalculations)                       *)
(***************************************************************************)

\* a constructor that starts the tracker in anchored mode
NewTrackerAnchored ==
  [headingTrue |-> 0, headingMagnetic |-> 0,
   courseOverGroundMagnetic |-> Null, speedOverGround |-> 0,
   airTemp |-> 0, humidity |-> 0,
   anchorSet |-> TRUE, anchorApparentBearing |-> 0]

\* constructor: the field defaults
NewTracker ==
  [headingTrue |-> 0, headingMagnetic |-> 0,
   courseOverGroundMagnetic |-> Null, speedOverGround |-> 0,
   airTemp |-> 0, humidity |-> 0,
   anchorSet |-> FALSE, anchorApparentBearing |-> 0]

\* the six paths of the switch in updateNavigationData
NavPaths ==
  {"navigation.headingTrue", "navigation.headingMagnetic",
   "navigation.courseOverGroundMagnetic", "navigation.speedOverGround",
   "environment.outside.tempest.observations.airTemperature",
   "environment.outside.tempest.observations.relativeHumidity"}

\* updateNavigationData with the break of the first case missing
updateNavigationDataFallThrough(t, path, value) ==
  CASE path = "navigation.headingTrue" ->
         [t EXCEPT !.headingTrue = value, !.headingMagnetic = value]
    [] path = "navigation.headingMagnetic" ->
         [t EXCEPT !.headingMagnetic = value]
    [] path = "navigation.courseOverGroundMagnetic" ->
         [t EXCEPT !.courseOverGroundMagnetic = value]
    [] path = "navigation.speedOverGround" ->
         [t EXCEPT !.speedOverGround = value]
    [] path = "environment.outside.tempest.observations.airTemperature" ->
         [t EXCEPT !.airTemp = value]
    [] path = "environment.outside.tempest.observations.relativeHumidity" ->
         [t EXCEPT !.humidity = value]
    [] OTHER -> t

\* Update navigation data from SignalK: the switch statement
updateNavigationData(t, path, value) ==
  CASE path = "navigation.headingTrue" ->
         [t EXCEPT !.headingTrue = value]
    [] path = "navigation.headingMagnetic" ->
         [t EXCEPT !.headingMagnetic = value]
    [] path = "navigation.courseOverGroundMagnetic" ->
         [t EXCEPT !.courseOverGroundMagnetic = value]
    [] path = "navigation.speedOverGround" ->
         [t EXCEPT !.speedOverGround = value]
    [] path = "environment.outside.tempest.observations.airTemperature" ->
         [t EXCEPT !.airTemp = value]
    [] path = "environment.outside.tempest.observations.relativeHumidity" ->
         [t EXCEPT !.humidity = value]
    [] OTHER -> t

(***************************************************************************)
(* calculateApparentWind                                                   *)
(***************************************************************************)

\* JavaScript truthiness of an optional number: null and 0 are falsy
Truthy(opt) == opt # Null /\ opt[1] # 0

\* a || b on plain numbers
JsOr(a, b) == IF a # 0 THEN a ELSE b

\* const courseOverGroundMagneticDeg = this.courseOverGroundMagnetic ? ... :
\* headingMagneticDeg  (computed by the code, then not used)
courseOverGroundMagneticDeg(t) ==
  IF Truthy(t.courseOverGroundMagnetic)
  THEN radToDeg(t.courseOverGroundMagnetic[1])
  ELSE radToDeg(t.headingMagnetic)

\* the heading the resolver adds the relative angle to, magnetic frame
resolverMagneticDeg(t) == radToDeg(t.headingMagnetic)

\* (heading + relative angle) % 360
compassSum(headingDeg, windDirection) ==
  JsRem(headingDeg + windDirection, 360)

calculateApparentWind(windData, t) ==
  LET headingTrueDeg == radToDeg(t.headingTrue)
      apparentTrueDeg == compassSum(headingTrueDeg, windData.windDirection)
      apparentMagneticDeg ==
        compassSum(resolverMagneticDeg(t), windData.windDirection)
  IN  [windSpeed |-> windData.windSpeed,
       windAngleRelative |-> windData.windDirection,
       windAngleRelativeRad |-> degToRad(windData.windDirection),
       apparentTrueDeg |-> apparentTrueDeg,
       apparentMagneticDeg |-> apparentMagneticDeg,
       apparentTrueRad |-> degToRad(apparentTrueDeg),
       apparentMagneticRad |-> degToRad(apparentMagneticDeg),
       airTemperature |-> JsOr(windData.airTemperature, t.airTemp)]

(***************************************************************************)
(* calculateDerivedWindValues                                              *)
(***************************************************************************)

\* let useDirection = headingMagnetic; if (COG != null) useDirection = COG
\* (computed by the code, then not used)
useDirection(t) ==
  IF t.courseOverGroundMagnetic # Null
  THEN t.courseOverGroundMagnetic[1]
  ELSE t.headingMagnetic

effectiveHeadingTrueRad(t) ==
  IF t.anchorSet THEN t.anchorApparentBearing ELSE t.headingTrue

effectiveHeadingMagneticRad(t) ==
  IF t.anchorSet THEN t.anchorApparentBearing ELSE t.headingMagnetic

\* the speed over ground not forced to zero at anchor
effectiveSOGStored(t) == t.speedOverGround

effectiveSOG(t) == IF t.anchorSet THEN 0 ELSE t.speedOverGround

\* speed * Math.cos(angle), speed * Math.sin(angle)
XComp(speed, angle) == DivT(speed * Cos(angle), TrigScale)

YComp(speed, angle) == DivT(speed * Sin(angle), TrigScale)

\* the wind vector with the vessel's velocity subtracted
windVectorDifference(windSpeed, bearingRad, sog, headingRad) ==
  <<XComp(windSpeed, bearingRad) - XComp(sog, headingRad),
    YComp(windSpeed, bearingRad) - YComp(sog, headingRad)>>

\* W = A + V in one frame, as <<Wx, Wy>>
windVector(windSpeed, bearingRad, sog, headingRad) ==
  <<XComp(windSpeed, bearingRad) + XComp(sog, headingRad),
    YComp(windSpeed, bearingRad) + YComp(sog, headingRad)>>

\* V^0.16 * 1000 for V in 1e-4 km/h: Math.pow tabulated at
\* 0, 1, 2, 5, 10, 20, 50, 100, 200 km/h and interpolated linearly
PowV == <<0, 1, 2, 5, 10, 20, 50, 100, 200>>

PowP == <<0, 1000, 1117, 1294, 1445, 1615, 1870, 2089, 2334>>

Pow016(V) ==
  IF V >= PowV[9] * 10000 THEN PowP[9]
  ELSE LET i == CHOOSE j \in 1..8 :
                  PowV[j] * 10000 <= V /\ V < PowV[j + 1] * 10000
           v0 == PowV[i] * 10000
           v1 == PowV[i + 1] * 10000
       IN  PowP[i] + ((PowP[i + 1] - PowP[i]) * ((V - v0) \div 100))
                       \div ((v1 - v0) \div 100)

\* the wind chill guard with airTempC < 10
windChillGuardStrict(airTempC, windSpeedKmh) ==
  airTempC < 10 * TempScale /\ windSpeedKmh > 48000

\* if (airTempC <= 10 && windSpeedKmh > 4.8)
windChillGuard(airTempC, windSpeedKmh) ==
  airTempC <= 10 * TempScale /\ windSpeedKmh > 48000

\* 13.12 + 0.6215 T - 11.37 V^0.16 + 0.3965 T V^0.16, then + 273.15
windChillFormula(airTempC, windSpeedKmh) ==
  LET T == DivT(airTempC * 10, 3)
      P == Pow016(windSpeedKmh)
      windChillC == 13120 + DivT(6215 * T, 10000) - DivT(1137 * P, 100)
                      + DivT(397 * DivT(T * P, 1000), 1000)
  IN  DivT(windChillC * 3, 10) + Kelvin0

\* the heat index guard with humidity > 40
heatIndexGuardStrict(airTempF, humidity) ==
  airTempF >= 80 * 1500 /\ humidity > 40 * HumScale

\* if (airTempF >= 80 && this.humidity >= 40)
heatIndexGuard(airTempF, humidity) ==
  airTempF >= 80 * 1500 /\ humidity >= 40 * HumScale

\* the Rothfusz regression, then (F - 32) * 5 / 9 + 273.15
heatIndexFormula(airTempF, humidity) ==
  LET T == DivT(airTempF, 150)
      R == DivT(humidity, HumScale)
      heatIndexF ==
        -42379 + DivT(204902 * T, 1000) + DivT(1014333 * R, 100)
        - DivT(2248 * (T * R), 100) - DivT(684 * (T * T), 10000)
        - DivT(5482 * (R * R), 100) + DivT(123 * DivT(T * T * R, 100), 100)
        + DivT(853 * DivT(T * R * R, 10), 1000)
        - DivT(199 * DivT(DivT(T * T, 100) * (R * R), 100), 1000)
      heatIndexC == DivT((heatIndexF - 32000) * 5, 9)
  IN  DivT(heatIndexC * 3, 10) + Kelvin0

\* the feels-like selection with the heat index taken whenever computed
feelsLikeSelectNoBand(airTemp, airTempC, windChillK, heatIndexK) ==
  IF windChillK # Null /\ airTempC <= 10 * TempScale THEN windChillK[1]
  ELSE IF heatIndexK # Null THEN heatIndexK[1]
  ELSE airTemp

\* the feels-like selection
feelsLikeSelect(airTemp, airTempC, windChillK, heatIndexK) ==
  IF windChillK # Null /\ airTempC <= 10 * TempScale THEN windChillK[1]
  ELSE IF heatIndexK # Null /\ airTempC >= 27 * TempScale THEN heatIndexK[1]
  ELSE airTemp

\* now is the clock reading of new Date(); zT and zM are what Math.atan2
\* returns for a zero vector in the true and in the magnetic frame
calculateDerivedWindValues(aw, t, now, zT, zM) ==
  LET hT == effectiveHeadingTrueRad(t)
      hM == effectiveHeadingMagneticRad(t)
      angleApparent ==
        normalizeAngle(JsOr(aw.windAngleRelativeRad, aw.apparentTrueRad - hT))
      sog == effectiveSOG(t)
      W == windVector(aw.windSpeed, aw.apparentTrueRad, sog, hT)
      trueWindSpeed == Sqrt(W[1] * W[1] + W[2] * W[2])
      trueWindDirTrueRad == toCompassBearing(Atan2(W[2], W[1], zT))
      WMag == windVector(aw.windSpeed, aw.apparentMagneticRad, sog, hM)
      trueWindDirMagRad == toCompassBearing(Atan2(WMag[2], WMag[1], zM))
      airTempC == t.airTemp - Kelvin0
      windSpeedKmh == trueWindSpeed * 36
      windChillK == IF windChillGuard(airTempC, windSpeedKmh)
                    THEN Some(windChillFormula(airTempC, windSpeedKmh))
                    ELSE Null
      airTempF == 9 * airTempC + 32 * 1500
      heatIndexK == IF heatIndexGuard(airTempF, t.humidity)
                    THEN Some(heatIndexFormula(airTempF, t.humidity))
                    ELSE Null
  IN  [speedApparent |-> aw.windSpeed,
       angleApparent |-> angleApparent,
       angleTrueGround |-> normalizeAngle(trueWindDirTrueRad - hT),
       angleTrueWater |-> normalizeAngle(trueWindDirMagRad - hM),
       directionTrue |-> trueWindDirTrueRad,
       directionMagnetic |-> trueWindDirMagRad,
       speedTrue |-> trueWindSpeed,
       windChill |-> windChillK,
       heatIndex |-> heatIndexK,
       feelsLike |-> feelsLikeSelect(t.airTemp, airTempC, windChillK, heatIndexK),
       timestamp |-> now,
       source |-> "mqtt-weatherflow-derived"]

(***************************************************************************)
(* createWindDeltas                                                        *)
(***************************************************************************)

\* Object.entries(windPaths): the keys in insertion order
windKeys ==
  <<"speedApparent", "angleApparent", "angleTrueGround", "angleTrueWater",
    "directionTrue", "directionMagnetic", "speedTrue">>

windPaths ==
  [speedApparent |-> "environment.wind.speedApparent",
   angleApparent |-> "environment.wind.angleApparent",
   angleTrueGround |-> "environment.wind.angleTrueGround",
   angleTrueWater |-> "environment.wind.angleTrueWater",
   directionTrue |-> "environment.wind.directionTrue",
   directionMagnetic |-> "environment.wind.directionMagnetic",
   speedTrue |-> "environment.wind.speedTrue"]

\* Object.entries(tempestPaths): the keys in insertion order
tempestKeys == <<"windChill", "heatIndex", "feelsLike">>

tempestPaths ==
  [windChill |-> "environment.outside.tempest.observations.windChill",
   heatIndex |-> "environment.outside.tempest.observations.heatIndex",
   feelsLike |-> "environment.outside.tempest.observations.feelsLike"]

\* one pushed delta: $source, timestamp, values[0].path, values[0].value;
\* the value is <<v>> for a number v and null as the result holds it
Delta(d, path, value) ==
  [path |-> path, value |-> value, source |-> d.source,
   timestamp |-> d.timestamp]

\* the second forEach without its !== null test
tempestPublishedAlways(value) == TRUE

\* the !== undefined && !== null filter of the second forEach
tempestPublished(value) == value # Null

\* the first forEach pushes every wind field (each is defined in a solver
\* result); the second pushes the fields that pass the filter
createWindDeltas(d) ==
  LET windDeltas ==
        [i \in 1..Len(windKeys) |->
           Delta(d, windPaths[windKeys[i]], Some(d[windKeys[i]]))]
      Entry(key, value) ==
        IF tempestPublished(value)
        THEN <<Delta(d, tempestPaths[key], value)>>
        ELSE <<>>
  IN  windDeltas \o Entry("windChill", d.windChill)
        \o Entry("heatIndex", d.heatIndex)
        \o Entry("feelsLike", Some(d.feelsLike))

(***************************************************************************)
(* State                                                                   *)
(***************************************************************************)

VARIABLES
  tracker,       \* windCalculations: the WindCalculations instance
  latest,        \* history: per path, the value of the latest update naming it
  pc,            \* position of the running handler, "idle" between events
  cur,           \* the sample being handled: id, message type, windData
  snap,          \* history: the tracker when calculateApparentWind read it
  apparentWind,  \* const apparentWind of calculateAndPublishWind
  derivedWind,   \* const derivedWind of calculateAndPublishWind
  pending,       \* windDeltas not yet handed to app.handleMessage
  sink,          \* what app.handleMessage received: sample id, $source, path
  arrived,       \* number of wind samples received so far
  angleIn,       \* argument of a direct call of an angle utility
  angleOut,      \* <<utility, result>> of that call, null before it
  calls,         \* history: the calls of calculateDerivedWindValues so far
  plugin,        \* the module variables of index.js and the fetches in flight
  stream,        \* latest value the plugin published on each subscribed path
  fedBack        \* history: the station's reading behind tracker.humidity

vars == <<tracker, latest, pc, cur, snap, apparentWind, derivedWind,
          pending, sink, arrived, angleIn, angleOut, calls, plugin, stream,
          fedBack>>

\* bound on the number of wind samples of a run
MaxSamples == 2

\* the clock readings new Date() can return
Times == {0, 1}

\* what Math.atan2 returns for a zero vector: 0 or -0, pi, -pi by the signs
\* of the zeros when both speeds are zero; any angle when two nonzero
\* vectors cancel up to rounding
ZeroAtan2(windSpeed, sog, W) ==
  IF W # <<0, 0>> THEN {0}
  ELSE IF windSpeed = 0 /\ sog = 0 THEN {-Pi, 0, Pi}
  ELSE (-Pi)..Pi

NoSample ==
  [id |-> 0, type |-> "none",
   windData |-> [windSpeed |-> 0, windDirection |-> 0, airTemperature |-> 0]]

\* paths outside the switch of updateNavigationData
OtherPaths == {"navigation.position", "environment.wind.speedApparent"}

DefaultLatest ==
  [p \in NavPaths \cup OtherPaths |->
     CASE p = "navigation.headingTrue" -> NewTracker.headingTrue
       [] p = "navigation.headingMagnetic" -> NewTracker.headingMagnetic
       [] p = "navigation.courseOverGroundMagnetic" ->
            NewTracker.courseOverGroundMagnetic
       [] p = "navigation.speedOverGround" -> NewTracker.speedOverGround
       [] p = "environment.outside.tempest.observations.airTemperature" ->
            NewTracker.airTemp
       [] p = "environment.outside.tempest.observations.relativeHumidity" ->
            NewTracker.humidity
       [] OTHER -> Null]

\* the module variables of index.js before the first plugin.start: which of
\* udpServer, forecastInterval, windCalculations are set, whether
\* navigationSubscriptions holds the unsubscribe functions, the number of
\* fetchForecast calls awaiting their response, and (history) whether
\* plugin.stop has returned since the last plugin.start, the number of
\* plugin.start calls and of plugin.start calls and timer ticks so far
NotStarted ==
  [udpServer |-> FALSE, forecastInterval |-> FALSE,
   windCalculations |-> FALSE, navigationSubscriptions |-> FALSE,
   fetches |-> 0, stopped |-> FALSE, starts |-> 0, events |-> 0]

\* index.js after plugin.start({enableWindCalculations: true, udpPort})
Started ==
  [NotStarted EXCEPT !.udpServer = TRUE, !.windCalculations = TRUE,
                     !.navigationSubscriptions = TRUE, !.starts = 1]

\* nothing published yet on the subscribed observation paths; reading is
\* the station's relative humidity behind the published value
NoStream == [airTemperature |-> Null, relativeHumidity |-> Null,
             reading |-> Null]

(***************************************************************************)
(* calculateAndPublishWind, statement by statement                         *)
(***************************************************************************)

\* const apparentWind = windCalculations.calculateApparentWind(windData)
CalcApparent ==
  /\ pc = "calc"
  /\ apparentWind' = calculateApparentWind(cur.windData, tracker)
  /\ snap' = tracker
  /\ pc' = "apparent"
  /\ UNCHANGED <<tracker, latest, cur, derivedWind, pending, sink, arrived,
                 angleIn, angleOut,
                 calls, plugin, stream, fedBack>>

\* every record calculateDerivedWindValues(aw) can return on tracker t
DerivedFrom(aw, t) ==
  LET sog == effectiveSOG(t)
      W == windVector(aw.windSpeed, aw.apparentTrueRad, sog,
                      effectiveHeadingTrueRad(t))
      WMag == windVector(aw.windSpeed, aw.apparentMagneticRad, sog,
                         effectiveHeadingMagneticRad(t))
  IN  {calculateDerivedWindValues(aw, t, now, zT, zM) :
         now \in Times,
         zT \in ZeroAtan2(aw.windSpeed, sog, W),
         zM \in ZeroAtan2(aw.windSpeed, sog, WMag)}

\* const derivedWind = windCalculations.calculateDerivedWindValues(apparentWind)
CalcDerived ==
  /\ pc = "apparent"
  /\ derivedWind' \in DerivedFrom(apparentWind, tracker)
  /\ pc' = "derived"
  /\ UNCHANGED <<tracker, latest, cur, snap, apparentWind, pending, sink,
                 arrived, angleIn, angleOut,
                 calls, plugin, stream, fedBack>>

\* const windDeltas = windCalculations.createWindDeltas(derivedWind)
MapDeltas ==
  /\ pc = "derived"
  /\ pending' = createWindDeltas(derivedWind)
  /\ pc' = "publish"
  /\ UNCHANGED <<tracker, latest, cur, snap, apparentWind, derivedWind, sink,
                 arrived, angleIn, angleOut,
                 calls, plugin, stream, fedBack>>

\* windDeltas.forEach: one app.handleMessage(plugin.id, delta)
PublishDelta ==
  /\ pc = "publish"
  /\ pending # <<>>
  /\ sink' = Append(sink, [id |-> cur.id, source |-> Head(pending).source,
                           path |-> Head(pending).path])
  /\ pending' = Tail(pending)
  /\ UNCHANGED <<tracker, latest, pc, cur, snap, apparentWind, derivedWind,
                 arrived, angleIn, angleOut,
                 calls, plugin, stream, fedBack>>

\* the forEach is exhausted and the handler returns to the event loop
HandlerReturn ==
  /\ pc = "publish"
  /\ pending = <<>>
  /\ pc' = "idle"
  /\ cur' = NoSample
  /\ apparentWind' = Null
  /\ derivedWind' = Null
  /\ snap' = Null
  /\ UNCHANGED <<tracker, latest, pending, sink, arrived, angleIn, angleOut,
                 calls, plugin, stream, fedBack>>

(***************************************************************************)
(* The plugin's event handlers (src/index.js)                              *)
(***************************************************************************)

\* values the navigation feed delivers on each subscribed path
FeedValues(path) ==
  CASE path = "navigation.headingTrue" -> {6}
    [] path = "navigation.headingMagnetic" -> {3}
    [] path = "navigation.courseOverGroundMagnetic" -> {Some(6)}
    [] path = "navigation.speedOverGround" -> {5000}
    [] path = "environment.outside.tempest.observations.airTemperature" ->
         {Kelvin0 + 30 * TempScale}
    [] path = "environment.outside.tempest.observations.relativeHumidity" ->
         {40 * HumScale}

\* wind speeds (mm/s) and relative angles (degrees) of incoming samples
SampleSpeeds == {1500}

SampleDirections == {90}

\* obs[7] of an obs_st message, degrees Celsius in temperature units
ObsAirTemperatures == {30 * TempScale}

\* an onValue callback that could run at any statement of a handler
navDeliverableAnywhere(p) == TRUE

\* an onValue callback runs when the event loop is idle, or synchronously
\* inside an app.handleMessage call of a running handler; never inside the
\* straight-line code between two such calls
navDeliverable(p) == p \in {"idle", "calc", "publish"}

\* getSelfStream(path).onValue(value => updateNavigationData(path, value.value))
\* for a value another provider published on path
NavUpdateOn(path) ==
  /\ navDeliverable(pc)
  /\ \E value \in FeedValues(path) :
       /\ tracker' = updateNavigationData(tracker, path, value)
       /\ latest' = [latest EXCEPT ![path] = value]
  /\ fedBack' =
       IF path = "environment.outside.tempest.observations.relativeHumidity"
       THEN Null ELSE fedBack
  /\ UNCHANGED <<pc, cur, snap, apparentWind, derivedWind, pending, sink,
                 arrived, angleIn, angleOut, calls, plugin, stream>>

NavUpdate == \E path \in NavPaths : NavUpdateOn(path)

rapidWindKeys == <<"timeEpoch", "windSpeed", "windDirection">>

observationKeys ==
  <<"timeEpoch", "windLull", "windAvg", "windGust", "windDirection",
    "windSampleInterval", "stationPressure", "airTemperature",
    "relativeHumidity", "illuminance", "uvIndex", "solarRadiation",
    "rainAccumulated", "precipitationType", "lightningStrikeAvgDistance",
    "lightningStrikeCount", "battery", "reportInterval",
    "localDailyRainAccumulation", "rainAccumulatedFinal",
    "localDailyRainAccumulationFinal", "precipitationAnalysisType">>

\* the sendSignalKDelta calls of one message: one sink entry per key, with
\* path basePath.key
RawDeltas(id, basePath, keys) ==
  [i \in 1..Len(keys) |->
     [id |-> id, source |-> "zennora-weatherflow-udp",
      path |-> <<basePath, keys[i]>>]]

\* a 'message' event that could pre-empt a running handler
handlerMayStartAnytime(p) == TRUE

\* a 'message' event is dispatched from the event loop: the previous
\* handler has run to completion
handlerMayStart(p) == p = "idle"

\* udpServer.on('message') -> processWeatherFlowMessage -> processRapidWind
processRapidWind ==
  /\ handlerMayStart(pc)
  /\ arrived < MaxSamples
  /\ \E windSpeed \in SampleSpeeds :
       \E windDirection \in SampleDirections :
         cur' = [id |-> arrived + 1, type |-> "rapid_wind",
                 windData |-> [windSpeed |-> windSpeed,
                               windDirection |-> windDirection,
                               airTemperature |-> tracker.airTemp]]
  /\ arrived' = arrived + 1
  /\ sink' = sink \o RawDeltas(arrived + 1, "environment.outside.rapidWind",
                             rapidWindKeys)
  /\ pc' = "calc"
  /\ UNCHANGED <<tracker, latest, snap, apparentWind, derivedWind, pending,
                 angleIn, angleOut,
                 calls, plugin, stream, fedBack>>

\* convertToSignalKUnits, for numeric values: Celsius to kelvin, percent to
\* ratio, every other key of an observation as given or rescaled
convertToSignalKUnits(key, value) ==
  CASE key = "airTemperature" -> value + Kelvin0
    [] key = "relativeHumidity" -> DivT(value, 100)
    [] OTHER -> value

\* obs[8] of an obs_st message, percent in humidity units
ObsHumidities == {80 * HumScale}

\* udpServer.on('message') -> processWeatherFlowMessage ->
\* processTempestObservation
processTempestObservation ==
  /\ handlerMayStart(pc)
  /\ arrived < MaxSamples
  /\ \E windAvg \in SampleSpeeds :
       \E windDirection \in SampleDirections :
         \E airTemperature \in ObsAirTemperatures :
           \E relativeHumidity \in ObsHumidities :
             /\ cur' = [id |-> arrived + 1, type |-> "obs_st",
                        windData |-> [windSpeed |-> windAvg,
                                      windDirection |-> windDirection,
                                      airTemperature |-> airTemperature]]
             /\ stream' =
                  [airTemperature |->
                     Some(convertToSignalKUnits("airTemperature",
                                                airTemperature)),
                   relativeHumidity |->
                     Some(convertToSignalKUnits("relativeHumidity",
                                                relativeHumidity)),
                   reading |-> Some(relativeHumidity)]
  /\ arrived' = arrived + 1
  /\ sink' = sink \o RawDeltas(arrived + 1,
                             "environment.outside.tempest.observations",
                             observationKeys)
  /\ pc' = "calc"
  /\ UNCHANGED <<tracker, latest, snap, apparentWind, derivedWind, pending,
                 angleIn, angleOut, calls, plugin, fedBack>>

\* plugin.start with enableWindCalculations and udpPort set has returned
Init ==
  /\ tracker = NewTracker
  /\ latest = DefaultLatest
  /\ pc = "idle"
  /\ cur = NoSample
  /\ snap = Null
  /\ apparentWind = Null
  /\ derivedWind = Null
  /\ pending = <<>>
  /\ sink = <<>>
  /\ arrived = 0
  /\ angleIn = 0
  /\ angleOut = Null
  /\ calls = {}
  /\ plugin = Started
  /\ stream = NoStream
  /\ fedBack = Null

Next ==
  \/ NavUpdate
  \/ processRapidWind
  \/ processTempestObservation
  \/ CalcApparent
  \/ CalcDerived
  \/ MapDeltas
  \/ PublishDelta
  \/ HandlerReturn

Spec == Init /\ [][Next]_vars

(***************************************************************************)
(* The tracker used directly: updateNavigationData with any path           *)
(***************************************************************************)

NavValues(path) ==
  CASE path = "navigation.headingTrue" -> {-6, 0, 6, 30}
    [] path = "navigation.headingMagnetic" -> {-3, 0, 12}
    [] path = "navigation.courseOverGroundMagnetic" ->
         {Null, Some(0), Some(6)}
    [] path = "navigation.speedOverGround" -> {-1000, 0, 5000}
    [] path = "environment.outside.tempest.observations.airTemperature" ->
         {-5, 0, Kelvin0 + 10 * TempScale}
    [] path = "environment.outside.tempest.observations.relativeHumidity" ->
         {0, 80, 40 * HumScale, 250 * HumScale}
    [] OTHER -> {Some(7)}

ApplyUpdate ==
  /\ \E path \in NavPaths \cup OtherPaths :
       \E value \in NavValues(path) :
         /\ tracker' = updateNavigationData(tracker, path, value)
         /\ latest' = [latest EXCEPT ![path] = value]
  /\ UNCHANGED <<pc, cur, snap, apparentWind, derivedWind, pending, sink,
                 arrived, angleIn, angleOut,
                 calls, plugin, stream, fedBack>>

NextNav == ApplyUpdate

SpecNav == Init /\ [][NextNav]_vars

(***************************************************************************)
(* The resolver, solver and mapper as pure functions of their inputs       *)
(***************************************************************************)

CalcHeadingsTrue == {-6, 0, 12}

CalcHeadingsMagnetic == {0, 12}

CalcCourses == {Null, Some(0), Some(6)}

CalcSpeedsOverGround == {0, 5000}

CalcAirTemps ==
  {0, Kelvin0 + 10 * TempScale, Kelvin0 + 10 * TempScale + 1,
   Kelvin0 + 8000 - 1, Kelvin0 + 8000, Kelvin0 + 27 * TempScale}

CalcHumidities == {39 * HumScale, 40 * HumScale}

\* anchorSet with anchorApparentBearing
CalcAnchors == {<<FALSE, 0>>, <<TRUE, 0>>, <<TRUE, 12>>}

CalcWindSpeeds == {0, 1300, 1500, 10000}

CalcWindDirections == {-90, 0, 90, 180}

CalcTrackers ==
  {[headingTrue |-> ht, headingMagnetic |-> hm,
    courseOverGroundMagnetic |-> cog, speedOverGround |-> sog,
    airTemp |-> at, humidity |-> hu,
    anchorSet |-> an[1], anchorApparentBearing |-> an[2]] :
     ht \in CalcHeadingsTrue, hm \in CalcHeadingsMagnetic,
     cog \in CalcCourses, sog \in CalcSpeedsOverGround,
     at \in CalcAirTemps, hu \in CalcHumidities, an \in CalcAnchors}

InitCalc ==
  /\ tracker \in CalcTrackers
  /\ latest = DefaultLatest
  /\ pc = "calc"
  /\ \E windSpeed \in CalcWindSpeeds :
       \E windDirection \in CalcWindDirections :
         cur = [id |-> 1, type |-> "rapid_wind",
                windData |-> [windSpeed |-> windSpeed,
                              windDirection |-> windDirection,
                              airTemperature |-> tracker.airTemp]]
  /\ snap = Null
  /\ apparentWind = Null
  /\ derivedWind = Null
  /\ pending = <<>>
  /\ sink = <<>>
  /\ arrived = 1
  /\ angleIn = 0
  /\ angleOut = Null
  /\ calls = {}
  /\ plugin = Started
  /\ stream = NoStream
  /\ fedBack = Null

NextCalc ==
  \/ CalcApparent
  \/ CalcDerived
  \/ MapDeltas

SpecCalc == InitCalc /\ [][NextCalc]_vars

(***************************************************************************)
(* The angle utilities called directly                                     *)
(***************************************************************************)

\* bound on the magnitude of the argument, in angle units
MaxAngle == 40

InitAngle ==
  /\ tracker = NewTracker
  /\ latest = DefaultLatest
  /\ pc = "idle"
  /\ cur = NoSample
  /\ snap = Null
  /\ apparentWind = Null
  /\ derivedWind = Null
  /\ pending = <<>>
  /\ sink = <<>>
  /\ arrived = 0
  /\ angleIn \in (-MaxAngle)..MaxAngle
  /\ angleOut = Null
  /\ calls = {}
  /\ plugin = Started
  /\ stream = NoStream
  /\ fedBack = Null

CallNormalizeAngle ==
  /\ angleOut = Null
  /\ angleOut' = <<"normalizeAngle", normalizeAngle(angleIn)>>
  /\ UNCHANGED <<tracker, latest, pc, cur, snap, apparentWind, derivedWind,
                 pending, sink, arrived, angleIn,
                 calls, plugin, stream, fedBack>>

CallToCompassBearing ==
  /\ angleOut = Null
  /\ angleOut' = <<"toCompassBearing", toCompassBearing(angleIn)>>
  /\ UNCHANGED <<tracker, latest, pc, cur, snap, apparentWind, derivedWind,
                 pending, sink, arrived, angleIn,
                 calls, plugin, stream, fedBack>>

NextAngle ==
  \/ CallNormalizeAngle
  \/ CallToCompassBearing

SpecAngle == InitAngle /\ [][NextAngle]_vars

(***************************************************************************)
(* The solver called repeatedly by one caller                              *)
(***************************************************************************)

\* bound on the number of distinct recorded calls
MaxCalls == 2

TwiceTrackers ==
  {NewTracker,
   [NewTracker EXCEPT !.headingTrue = 6, !.speedOverGround = 5000,
                      !.airTemp = Kelvin0 + 10 * TempScale]}

TwiceSamples ==
  {[windSpeed |-> ws, windDirection |-> wd, airTemperature |-> 0] :
     ws \in {0, 1500}, wd \in {0, 90}}

InitTwice ==
  /\ tracker \in TwiceTrackers
  /\ latest = DefaultLatest
  /\ pc = "apparent"
  /\ cur = NoSample
  /\ snap = Null
  /\ apparentWind \in {calculateApparentWind(w, tracker) : w \in TwiceSamples}
  /\ derivedWind = Null
  /\ pending = <<>>
  /\ sink = <<>>
  /\ arrived = 0
  /\ angleIn = 0
  /\ angleOut = Null
  /\ calls = {}
  /\ plugin = Started
  /\ stream = NoStream
  /\ fedBack = Null

\* Math.atan2 is a function of its arguments: two results agree on what it
\* returned for a zero vector
SameAtan2(d, e) ==
  /\ d.directionTrue = e.directionTrue
  /\ d.directionMagnetic = e.directionMagnetic

\* one call of calculateDerivedWindValues(apparentWind), at any clock reading
CallDerivedWindValues ==
  /\ \E d \in DerivedFrom(apparentWind, tracker) :
       /\ \A c \in calls :
            (c.aw = apparentWind /\ c.t = tracker) => SameAtan2(c.result, d)
       /\ calls' = calls \cup {[aw |-> apparentWind, t |-> tracker,
                                result |-> d]}
       /\ derivedWind' = d
  /\ Cardinality(calls') <= MaxCalls
  /\ UNCHANGED <<tracker, latest, pc, cur, snap, apparentWind, pending, sink,
                 arrived, angleIn, angleOut, plugin, stream, fedBack>>

\* the caller computes the apparent wind of another sample
CallApparentWind ==
  /\ \E w \in TwiceSamples : apparentWind' = calculateApparentWind(w, tracker)
  /\ UNCHANGED <<tracker, latest, pc, cur, snap, derivedWind, pending, sink,
                 arrived, angleIn, angleOut, calls, plugin, stream, fedBack>>

NextTwice ==
  \/ CallDerivedWindValues
  \/ CallApparentWind

SpecTwice == InitTwice /\ [][NextTwice]_vars

(***************************************************************************)
(* The plugin's life cycle: start, stop, the forecast fetches and the      *)
(* plugin's own publications coming back through its subscriptions         *)
(***************************************************************************)

\* bound on the number of events the host, the timer and the UDP socket
\* raise: plugin.start calls and interval ticks (plugin.events), and
\* datagrams (arrived)
MaxPluginEvents == 3

\* the paths on which other providers publish in this specification
PluginFeedPaths == {"navigation.speedOverGround"}

\* plugin.start(options) with enableWindCalculations and udpPort set,
\* enableWebSocket off, and enableForecast (with apiToken and stationId)
\* on or off: a new tracker, the subscriptions, the UDP server, and with
\* enableForecast the first fetchForecast call and the interval
pluginStart ==
  /\ pc = "idle"
  /\ ~plugin.udpServer
  /\ plugin.events + arrived < MaxPluginEvents
  /\ \E enableForecast \in BOOLEAN :
       plugin' =
         [plugin EXCEPT
            !.windCalculations = TRUE,
            !.navigationSubscriptions = TRUE,
            !.udpServer = TRUE,
            !.forecastInterval = enableForecast,
            !.fetches = IF enableForecast THEN @ + 1 ELSE @,
            !.stopped = FALSE,
            !.starts = @ + 1,
            !.events = @ + 1]
  /\ tracker' = NewTracker
  /\ latest' = DefaultLatest
  /\ fedBack' = Null
  /\ UNCHANGED <<pc, cur, snap, apparentWind, derivedWind, pending, sink,
                 arrived, angleIn, angleOut, calls, stream>>

\* plugin.stop(): closes the UDP server, clears the interval, unsubscribes;
\* values not yet delivered to the removed callbacks are not delivered
pluginStop ==
  /\ pc = "idle"
  /\ plugin.udpServer
  /\ plugin' = [plugin EXCEPT !.udpServer = FALSE,
                              !.forecastInterval = FALSE,
                              !.navigationSubscriptions = FALSE,
                              !.stopped = TRUE]
  /\ stream' = NoStream
  /\ UNCHANGED <<tracker, latest, pc, cur, snap, apparentWind, derivedWind,
                 pending, sink, arrived, angleIn, angleOut, calls, fedBack>>

\* the setInterval timer calls fetchForecast
forecastTick ==
  /\ pc = "idle"
  /\ plugin.forecastInterval
  /\ plugin.events + arrived < MaxPluginEvents
  /\ plugin' = [plugin EXCEPT !.fetches = @ + 1, !.events = @ + 1]
  /\ UNCHANGED <<tracker, latest, pc, cur, snap, apparentWind, derivedWind,
                 pending, sink, arrived, angleIn, angleOut, calls, stream,
                 fedBack>>

\* the app.handleMessage calls of processForecastData(data): the current
\* conditions if present, then the hourly and the daily forecasts
ForecastDeltas(data) ==
  LET Entry(path) ==
        [id |-> 0, source |-> "zennora-weatherflow-api", path |-> path]
  IN  (IF data.current_conditions
       THEN <<Entry("environment.outside.tempest.observations")>>
       ELSE <<>>)
      \o [i \in 1..data.hourly |->
            Entry(<<"environment.outside.tempest.forecast.hourly", i - 1>>)]
      \o [i \in 1..data.daily |->
            Entry(<<"environment.outside.tempest.forecast.daily", i - 1>>)]

\* response bodies: whether current_conditions is present, and the number
\* of hourly and daily forecasts
ForecastResponses ==
  {[current_conditions |-> TRUE, hourly |-> 1, daily |-> 1],
   [current_conditions |-> FALSE, hourly |-> 0, daily |-> 1]}

\* await fetch(url), await response.json() resume: processForecastData(data)
fetchForecastResolved ==
  /\ pc = "idle"
  /\ plugin.fetches > 0
  /\ \E data \in ForecastResponses : sink' = sink \o ForecastDeltas(data)
  /\ plugin' = [plugin EXCEPT !.fetches = @ - 1]
  /\ UNCHANGED <<tracker, latest, pc, cur, snap, apparentWind, derivedWind,
                 pending, arrived, angleIn, angleOut, calls, stream, fedBack>>

\* the fetch rejects: the catch block logs the error
fetchForecastRejected ==
  /\ pc = "idle"
  /\ plugin.fetches > 0
  /\ plugin' = [plugin EXCEPT !.fetches = @ - 1]
  /\ UNCHANGED <<tracker, latest, pc, cur, snap, apparentWind, derivedWind,
                 pending, sink, arrived, angleIn, angleOut, calls, stream,
                 fedBack>>

\* the onValue callback of a subscribed observation path, for the value the
\* plugin itself published there
SelfDeliver ==
  /\ plugin.navigationSubscriptions
  /\ navDeliverable(pc)
  /\ \/ /\ stream.airTemperature # Null
        /\ tracker' =
             updateNavigationData(
               tracker,
               "environment.outside.tempest.observations.airTemperature",
               stream.airTemperature[1])
        /\ latest' =
             [latest EXCEPT
                !["environment.outside.tempest.observations.airTemperature"] =
                  stream.airTemperature[1]]
        /\ stream' = [stream EXCEPT !.airTemperature = Null]
        /\ UNCHANGED fedBack
     \/ /\ stream.relativeHumidity # Null
        /\ tracker' =
             updateNavigationData(
               tracker,
               "environment.outside.tempest.observations.relativeHumidity",
               stream.relativeHumidity[1])
        /\ latest' =
             [latest EXCEPT
                !["environment.outside.tempest.observations.relativeHumidity"]
                  = stream.relativeHumidity[1]]
        /\ stream' = [stream EXCEPT !.relativeHumidity = Null,
                                    !.reading = Null]
        /\ fedBack' = stream.reading
  /\ UNCHANGED <<pc, cur, snap, apparentWind, derivedWind, pending, sink,
                 arrived, angleIn, angleOut, calls, plugin>>

\* an onValue callback while the subscriptions exist
DeliverNav ==
  /\ plugin.navigationSubscriptions
  /\ \E path \in PluginFeedPaths : NavUpdateOn(path)

\* a 'message' event of the UDP server while it is open
UdpRapidWind ==
  /\ plugin.udpServer
  /\ plugin.events + arrived < MaxPluginEvents
  /\ processRapidWind

UdpTempestObservation ==
  /\ plugin.udpServer
  /\ plugin.events + arrived < MaxPluginEvents
  /\ processTempestObservation

InitPlugin ==
  /\ tracker = NewTracker
  /\ latest = DefaultLatest
  /\ pc = "idle"
  /\ cur = NoSample
  /\ snap = Null
  /\ apparentWind = Null
  /\ derivedWind = Null
  /\ pending = <<>>
  /\ sink = <<>>
  /\ arrived = 0
  /\ angleIn = 0
  /\ angleOut = Null
  /\ calls = {}
  /\ plugin = NotStarted
  /\ stream = NoStream
  /\ fedBack = Null

NextPlugin ==
  \/ pluginStart
  \/ pluginStop
  \/ forecastTick
  \/ fetchForecastResolved
  \/ fetchForecastRejected
  \/ SelfDeliver
  \/ DeliverNav
  \/ UdpRapidWind
  \/ UdpTempestObservation
  \/ CalcApparent
  \/ CalcDerived
  \/ MapDeltas
  \/ PublishDelta
  \/ HandlerReturn

SpecPlugin == InitPlugin /\ [][NextPlugin]_vars

(***************************************************************************)
(* Properties                                                              *)
(***************************************************************************)

\* the tracker field that a recognized path names
FieldOf(t, path) ==
  CASE path = "navigation.headingTrue" -> t.headingTrue
    [] path = "navigation.headingMagnetic" -> t.headingMagnetic
    [] path = "navigation.courseOverGroundMagnetic" ->
         t.courseOverGroundMagnetic
    [] path = "navigation.speedOverGround" -> t.speedOverGround
    [] path = "environment.outside.tempest.observations.airTemperature" ->
         t.airTemp
    [] path = "environment.outside.tempest.observations.relativeHumidity" ->
         t.humidity

\* C1: every derivation uses one snapshot of the tracker: no navigation
\* update takes effect between the first tracker read of
\* calculateApparentWind and the last of calculateDerivedWindValues, and
\* the derived record is one that the tracker state read at the start of
\* the call yields for the sample.
C1_AtomicSnapshot ==
  /\ pc \in {"apparent", "derived"} => tracker = snap
  /\ pc = "derived" =>
       derivedWind \in
         DerivedFrom(calculateApparentWind(cur.windData, snap), snap)

\* C1 witness: a second sample is derived on a tracker that navigation
\* updates have changed since the first sample was published
C1_Witness ==
  /\ pc = "derived"
  /\ cur.id = 2
  /\ snap.headingTrue = 6
  /\ snap.speedOverGround = 5000
  /\ derivedWind.speedTrue # derivedWind.speedApparent

DerivedSource == "mqtt-weatherflow-derived"

\* the derived paths the sink has received for sample id
DerivedPathsOf(id) ==
  {sink[i].path : i \in {j \in DOMAIN sink :
                           sink[j].id = id /\ sink[j].source = DerivedSource}}

\* the measurements every sample yields
RequiredPaths ==
  {windPaths[windKeys[k]] : k \in DOMAIN windKeys} \cup {tempestPaths.feelsLike}

\* C2: results are published in the order the samples arrived: the sink
\* never receives a measurement of an earlier sample after one of a later
\* sample, and when a sample's handler has returned (or a later sample has
\* arrived) all of that sample's derived measurements are in the sink.
C2_PublishedInArrivalOrder ==
  /\ \A i \in 1..(Len(sink) - 1) : sink[i].id <= sink[i + 1].id
  /\ \A id \in 1..arrived :
       (id < arrived \/ pc = "idle") => RequiredPaths \subseteq DerivedPathsOf(id)

\* C2 witness: two samples handled to completion, the second one after
\* navigation updates
C2_Witness ==
  /\ arrived = 2
  /\ pc = "idle"
  /\ tracker.speedOverGround = 5000
  /\ tempestPaths.feelsLike \in DerivedPathsOf(1)
  /\ tempestPaths.feelsLike \in DerivedPathsOf(2)

\* C3: each of the six fields holds the value of the latest update naming
\* it (its constructor default if none); an update with any other path
\* changes nothing; anchorSet and anchorApparentBearing keep their
\* constructor values and no field is added.
C3_LastWriteWins ==
  /\ \A p \in NavPaths : FieldOf(tracker, p) = latest[p]
  /\ tracker.anchorSet = NewTracker.anchorSet
  /\ tracker.anchorApparentBearing = NewTracker.anchorApparentBearing
  /\ DOMAIN tracker = DOMAIN NewTracker

\* C3 witness: all six fields updated, with implausible values stored as
\* given, and both unrecognized paths delivered
C3_Witness ==
  /\ tracker.headingTrue = 30
  /\ tracker.headingMagnetic = -3
  /\ tracker.courseOverGroundMagnetic = Some(0)
  /\ tracker.speedOverGround = -1000
  /\ tracker.airTemp = -5
  /\ tracker.humidity = 250 * HumScale
  /\ \A p \in OtherPaths : latest[p] = Some(7)

\* x mod 360 in [0, 360)
Mod360(x) == x % 360

\* C4 (as claimed): the magnetic frame uses courseOverGroundMagnetic when it
\* is non-null (0 included) and headingMagnetic otherwise: the resolver's
\* apparentMagneticDeg is congruent modulo 360 to that heading plus the
\* relative angle, and angleTrueWater is measured from that heading.
C4_CourseOverGroundPreferred ==
  LET cog == tracker.courseOverGroundMagnetic
      base == IF cog # Null THEN cog[1] ELSE tracker.headingMagnetic
  IN  /\ pc \in {"apparent", "derived"} =>
           Mod360(apparentWind.apparentMagneticDeg) =
             Mod360(radToDeg(base) + cur.windData.windDirection)
      /\ (pc = "derived" /\ ~tracker.anchorSet) =>
           derivedWind.angleTrueWater =
             normalizeAngle(derivedWind.directionMagnetic - base)

\* C5 (as claimed): both compass-frame apparent bearings of the resolver
\* lie in [0, 360).
C5_BearingsInRange ==
  pc \in {"apparent", "derived"} =>
    /\ apparentWind.apparentTrueDeg \in 0..359
    /\ apparentWind.apparentMagneticDeg \in 0..359

\* C6 (as claimed): normalizeAngle returns a value in (-pi, pi]: -pi is
\* never returned.
C6_HalfOpenRange ==
  (angleOut # Null /\ angleOut[1] = "normalizeAngle") =>
    (angleOut[2] > -Pi /\ angleOut[2] <= Pi)

InHalfOpen(a) == a > -Pi /\ a <= Pi

\* C7 (as claimed): angleApparent, angleTrueGround and angleTrueWater lie
\* in (-pi, pi], -pi excluded.
C7_SignedAnglesHalfOpen ==
  pc = "derived" =>
    /\ InHalfOpen(derivedWind.angleApparent)
    /\ InHalfOpen(derivedWind.angleTrueGround)
    /\ InHalfOpen(derivedWind.angleTrueWater)

TenCelsius == Kelvin0 + 10 * TempScale

\* C9: windChill is non-null exactly when the tracker's air temperature is
\* <= 10 C and speedTrue * 3.6 > 4.8 km/h, and null otherwise; at 10 C it
\* is computed for 1.5 m/s and null for 1.3 m/s.
C9_WindChillGuard ==
  pc = "derived" =>
    /\ derivedWind.windChill # Null <=>
         (tracker.airTemp - Kelvin0 <= 10 * TempScale
            /\ derivedWind.speedTrue * 36 > 48000)
    /\ (tracker.airTemp = TenCelsius /\ derivedWind.speedTrue = 1500) =>
         derivedWind.windChill # Null
    /\ (tracker.airTemp = TenCelsius /\ derivedWind.speedTrue = 1300) =>
         derivedWind.windChill = Null

\* C9 witness: wind chill computed at exactly 10 C and 1.5 m/s
C9_Witness ==
  /\ pc = "derived"
  /\ tracker.airTemp = TenCelsius
  /\ derivedWind.speedTrue = 1500
  /\ derivedWind.windChill # Null

\* 80 degrees Fahrenheit as a tracker temperature: (80 - 32) * 5 / 9 C
EightyFahrenheit == Kelvin0 + 8000

TwentySevenCelsius == 27 * TempScale

\* C11 (as the README states it): heatIndex is non-null exactly when the
\* tracker's air temperature is >= 27 C and its humidity is >= 40, and it is
\* then among the measurements handed to the sink.
C11_HeatIndexFrom27Celsius ==
  /\ pc = "derived" =>
       (derivedWind.heatIndex # Null <=>
          (tracker.airTemp - Kelvin0 >= TwentySevenCelsius
             /\ tracker.humidity >= 40 * HumScale))
  /\ pc = "publish" =>
       ((\E i \in DOMAIN pending : pending[i].path = tempestPaths.heatIndex)
          <=> (tracker.airTemp - Kelvin0 >= TwentySevenCelsius
                 /\ tracker.humidity >= 40 * HumScale))

\* C12: feelsLike is a number, selected as wind chill when it was computed
\* and the air temperature is <= 10 C, else heat index when it was computed
\* and the air temperature is >= 27 C, else the tracker's air temperature;
\* wind chill wins when both are non-null (injected at 5 C, the only way to
\* have both); strictly between 10 C and 27 C it is the tracker's air
\* temperature even when a heat index was computed.
C12_FeelsLikeSelection ==
  /\ \A w \in {Kelvin0 - TempScale, Kelvin0 + TempScale} :
       \A h \in {Kelvin0 + TempScale, Kelvin0 + 2 * TempScale} :
         feelsLikeSelect(Kelvin0 + 5 * TempScale, 5 * TempScale,
                         Some(w), Some(h)) = w
  /\ pc = "derived" =>
       LET d == derivedWind
           airTempC == tracker.airTemp - Kelvin0
       IN  /\ d.feelsLike \in Int
           /\ d.feelsLike =
                IF d.windChill # Null /\ airTempC <= 10 * TempScale
                THEN d.windChill[1]
                ELSE IF d.heatIndex # Null /\ airTempC >= TwentySevenCelsius
                     THEN d.heatIndex[1]
                     ELSE tracker.airTemp
           /\ (d.windChill # Null /\ d.heatIndex # Null) =>
                d.feelsLike = d.windChill[1]
           /\ (airTempC > 10 * TempScale /\ airTempC < TwentySevenCelsius) =>
                d.feelsLike = tracker.airTemp

\* C12 witness: at 80 F (26.67 C) and humidity 40 a heat index was computed
\* and feelsLike is still the tracker's air temperature
C12_Witness ==
  /\ pc = "derived"
  /\ tracker.airTemp = EightyFahrenheit
  /\ derivedWind.heatIndex # Null
  /\ derivedWind.heatIndex[1] # tracker.airTemp
  /\ derivedWind.feelsLike = tracker.airTemp

\* an angle as a compass bearing in [0, 2 pi)
Compass(rad) == rad % (2 * Pi)

\* what C13 and its amendment share: at anchor the true wind speed is the
\* apparent wind speed and both true wind angles are measured from
\* anchorApparentBearing
AnchoredSpeedAndAngles ==
  /\ derivedWind.speedTrue = apparentWind.windSpeed
  /\ derivedWind.angleTrueGround =
       normalizeAngle(derivedWind.directionTrue
                        - tracker.anchorApparentBearing)
  /\ derivedWind.angleTrueWater =
       normalizeAngle(derivedWind.directionMagnetic
                        - tracker.anchorApparentBearing)

\* directionTrue and directionMagnetic are the apparent bearings of their
\* frames as compass bearings
DirectionsAreApparentBearings ==
  /\ derivedWind.directionTrue = Compass(apparentWind.apparentTrueRad)
  /\ derivedWind.directionMagnetic = Compass(apparentWind.apparentMagneticRad)

\* C13 (as claimed): whenever anchorSet is true, for every stored heading
\* and speed over ground, speedTrue is the apparent wind speed, the true
\* wind directions are the apparent bearings of their frames, and the true
\* wind angles are measured from anchorApparentBearing.
C13_AnchoredOverride ==
  (pc = "derived" /\ tracker.anchorSet) =>
    (AnchoredSpeedAndAngles /\ DirectionsAreApparentBearings)

\* C13 (amended): as claimed, with the directions equal to the apparent
\* bearings whenever the apparent wind speed is not zero; with no apparent
\* wind the true wind is the zero vector and each direction is the compass
\* bearing of atan2 of two zeros, 0 or pi.
C13_AnchoredOverrideWithWind ==
  (pc = "derived" /\ tracker.anchorSet) =>
    /\ AnchoredSpeedAndAngles
    /\ apparentWind.windSpeed # 0 => DirectionsAreApparentBearings
    /\ apparentWind.windSpeed = 0 =>
         /\ derivedWind.directionTrue \in {0, Pi}
         /\ derivedWind.directionMagnetic \in {0, Pi}

\* C13 witness: at anchor with a stored speed over ground of 5 m/s and a
\* stored heading of 0, 10 m/s of wind from abeam
C13_Witness ==
  /\ pc = "derived"
  /\ tracker.anchorSet
  /\ tracker.anchorApparentBearing = Pi
  /\ tracker.speedOverGround = 5000
  /\ tracker.headingTrue = 0
  /\ apparentWind.windSpeed = 10000
  /\ apparentWind.windAngleRelative = 90
  /\ derivedWind.speedTrue = 10000
  /\ derivedWind.directionTrue = Pi \div 2
  /\ derivedWind.angleTrueGround = -(Pi \div 2)

\* the components of A + V in the true frame, from the stored heading and
\* speed over ground
SumX ==
  DivT(apparentWind.windSpeed * Cos(apparentWind.apparentTrueRad), TrigScale)
    + DivT(tracker.speedOverGround * Cos(tracker.headingTrue), TrigScale)

SumY ==
  DivT(apparentWind.windSpeed * Sin(apparentWind.apparentTrueRad), TrigScale)
    + DivT(tracker.speedOverGround * Sin(tracker.headingTrue), TrigScale)

\* C14: when not anchored, speedTrue is the magnitude (rounded down to the
\* grid) of (a cos b + s cos h, a sin b + s sin h) and directionTrue the
\* compass bearing of its atan2; no wind and no way give speedTrue 0; and
\* h = 0, s = 5, a = 10 at 90 degrees give the vector (5, 10), speedTrue
\* sqrt(125) and the direction of atan2(10, 5) (60 degrees on the grid).
C14_TrueWindVectorSum ==
  (pc = "derived" /\ ~tracker.anchorSet) =>
    LET d == derivedWind
        sq == SumX * SumX + SumY * SumY
    IN  /\ d.speedTrue >= 0
        /\ d.speedTrue * d.speedTrue <= sq
        /\ sq < (d.speedTrue + 1) * (d.speedTrue + 1)
        /\ (SumX # 0 \/ SumY # 0) =>
             d.directionTrue = toCompassBearing(Atan2(SumY, SumX, 0))
        /\ (apparentWind.windSpeed = 0 /\ tracker.speedOverGround = 0) =>
             d.speedTrue = 0
        /\ (tracker.headingTrue = 0 /\ tracker.speedOverGround = 5000
              /\ apparentWind.windSpeed = 10000
              /\ apparentWind.windAngleRelative = 90) =>
             /\ SumX = 5000
             /\ SumY = 10000
             /\ d.speedTrue = 11180
             /\ d.directionTrue = 4

\* C14 witness: the end-to-end scenario, under way and not anchored
C14_Witness ==
  /\ pc = "derived"
  /\ ~tracker.anchorSet
  /\ tracker.headingTrue = 0
  /\ tracker.speedOverGround = 5000
  /\ apparentWind.windSpeed = 10000
  /\ apparentWind.windAngleRelative = 90
  /\ derivedWind.speedTrue = 11180

\* the value of a result field as a measurement carries it
FieldValue(d, key) ==
  IF key \in {"windChill", "heatIndex"} THEN d[key] ELSE Some(d[key])

NonNullField(key) == FieldValue(derivedWind, key) # Null

\* C16: the mapper emits the seven wind measurements in their fixed order,
\* then windChill, heatIndex, feelsLike in that order, each exactly when its
\* value is non-null: 8 to 10 measurements, none with a null value, each
\* with the value, source tag and timestamp of the result.
C16_DeltasForNonNullValues ==
  pc = "publish" =>
    LET keys == windKeys \o SelectSeq(tempestKeys, NonNullField)
        PathOf(key) == IF key \in DOMAIN windPaths THEN windPaths[key]
                       ELSE tempestPaths[key]
    IN  /\ Len(pending) = Len(keys)
        /\ Len(pending) \in 8..10
        /\ \A i \in DOMAIN pending :
             /\ pending[i].path = PathOf(keys[i])
             /\ pending[i].value = FieldValue(derivedWind, keys[i])
             /\ pending[i].value # Null
             /\ pending[i].source = derivedWind.source
             /\ pending[i].timestamp = derivedWind.timestamp

\* C16 witness: a result with a wind chill and no heat index, mapped to
\* nine measurements taken at the later clock reading
C16_Witness ==
  /\ pc = "publish"
  /\ derivedWind.windChill # Null
  /\ derivedWind.heatIndex = Null
  /\ derivedWind.timestamp = 1
  /\ Len(pending) = 9
  /\ pending[8].path = tempestPaths.windChill
  /\ pending[9].path = tempestPaths.feelsLike

\* C17 (as claimed): angleApparent is the relative angle the resolver
\* supplied, reduced to the signed range, for every supplied value (0
\* included), whatever the stored heading and anchored mode.
C17_SuppliedAngleUsed ==
  pc = "derived" =>
    derivedWind.angleApparent =
      normalizeAngle(apparentWind.windAngleRelativeRad)

\* C15 (as claimed): two calls of calculateDerivedWindValues with the same
\* apparent-wind input on the same tracker state return records equal in
\* every field, whenever they are made.
C15_SolverDeterministic ==
  \A c1 \in calls : \A c2 \in calls :
    (c1.aw = c2.aw /\ c1.t = c2.t) => c1.result = c2.result

\* the tracker's air temperature in Fahrenheit units
TrackerFahrenheit == 9 * (tracker.airTemp - Kelvin0) + 32 * 1500

\* C18 (as claimed): when the tracker's humidity is the plugin's own
\* publication of a station reading of h percent, delivered back through
\* the subscription, the calculator reads h, so that at >= 80 F a heat index
\* is produced for h >= 40.
C18_HumidityInPercent ==
  (pc = "derived" /\ fedBack # Null /\ fedBack[1] >= 40 * HumScale
     /\ TrackerFahrenheit >= 80 * 1500) =>
    /\ tracker.humidity = fedBack[1]
    /\ derivedWind.heatIndex # Null

\* C19: in every state the plugin reaches, anchorSet is false and
\* anchorApparentBearing is 0, so the solver's effective headings and speed
\* are the stored headingTrue, headingMagnetic and speedOverGround.
C19_NeverAnchored ==
  /\ tracker.anchorSet = FALSE
  /\ tracker.anchorApparentBearing = 0
  /\ effectiveHeadingTrueRad(tracker) = tracker.headingTrue
  /\ effectiveHeadingMagneticRad(tracker) = tracker.headingMagnetic
  /\ effectiveSOG(tracker) = tracker.speedOverGround

\* C19 witness: after a stop and a second start, a sample is derived with a
\* speed over ground of 5 m/s delivered since, and the solver used it
C19_Witness ==
  /\ plugin.starts = 2
  /\ pc = "derived"
  /\ tracker.speedOverGround = 5000
  /\ derivedWind.speedTrue # derivedWind.speedApparent

\* C20 (as claimed): from the return of plugin.stop until the next
\* plugin.start, no step hands a measurement to the sink or changes the
\* tracker.
C20_QuietAfterStop ==
  [][(plugin.stopped /\ plugin'.stopped) =>
       (sink' = sink /\ tracker' = tracker)]_vars

====
